---- MODULE Spec2Model ----
(***************************************************************************)
(* Model of the Gmail -> Telegram load-alert webhook (src/gmail_watch.py). *)
(*                                                                         *)
(* Five specifications share this module:                                  *)
(*   Spec         one request thread serving /gmail-notify requests one    *)
(*                after the other, with the retry loops of the message     *)
(*                list, the message fetch and the Telegram send, and the   *)
(*                history of each call (hist, streak, lastFailure);        *)
(*   SpecThreads  the same handler run by NumThreads concurrent threads    *)
(*                (app.run(threaded=True)), without the history;           *)
(*   SpecExtract  the pure text extractor applied to bounded part trees;   *)
(*   SpecParse    build_formatted_message applied to bounded e-mail bodies; *)
(*   SpecRender   the same with long field values and internal failures.   *)
(*                                                                         *)
(* Texts are sequences of code points, encoded bodies are sequences of     *)
(* one-character strings (base64url symbols).                              *)
(***************************************************************************)
EXTENDS Integers, Sequences, FiniteSets, TLC

VARIABLES
    service,            \* global Gmail service handle: "None" or "svc"
    last_service_init,  \* global timestamp of the last successful init
    now,                \* time.time()
    thread,             \* per request thread: its position and locals
    hist,               \* per request thread: what its running call did
    observe,            \* whether hist, streak and lastFailure are kept
    streak,             \* per call class: consecutive failed calls
    lastFailure,        \* per call class: time of the last failed call
    payload,            \* SpecExtract: the message-part tree
    extracted,          \* SpecExtract: result of the extractor
    email,              \* SpecParse, SpecRender: the lines of an e-mail body
    parsed              \* SpecParse, SpecRender: what was made of the body

vars == <<service, last_service_init, now, thread, hist, observe, streak,
          lastFailure, payload, extracted, email, parsed>>

NoEmail == [suite |-> "none", lines |-> <<>>]
NotParsed == [done |-> FALSE]

(***************************************************************************)
(* Bounds of the model.                                                    *)
(***************************************************************************)
MaxNodes == 5          \* nodes of a message-part tree
NumThreads == 2        \* request threads of the Flask server
MaxTime == 3601        \* the clock stops here
MaxDrift == 1          \* seconds the clock counts one by one after each hour
MaxLines == 4          \* lines of an e-mail body of SpecParse
MaxFieldLines == 2     \* lines of an e-mail body of SpecRender

(***************************************************************************)
(* Constants of the program.                                               *)
(***************************************************************************)
SERVICE_REFRESH_INTERVAL == 3600
\* variant: one attempt more than the default max_retries
max_retries_off_by_one == 3 + 1
max_retries == 3
LIST_MAX_RESULTS == 3
MIN_BODY_LENGTH == 100
TELEGRAM_LIMIT == 4000
MARKER_LENGTH == 17    \* len("\n\n... (truncated)")

\* The circuit breaker of the design document; the program has no such
\* constants, they only serve to state the breaker's contract.
CIRCUIT_THRESHOLD == 3
CIRCUIT_COOLDOWN == 60

\* The radius of the dispatcher of the design document, in tenths of a mile
\* (150 miles); the program has no recipients registry and no radius.
RADIUS_TENTHS == 1500

(***************************************************************************)
(* safe_decode_base64                                                      *)
(***************************************************************************)
B64Alphabet ==
    <<"A","B","C","D","E","F","G","H","I","J","K","L","M","N","O","P",
      "Q","R","S","T","U","V","W","X","Y","Z","a","b","c","d","e","f",
      "g","h","i","j","k","l","m","n","o","p","q","r","s","t","u","v",
      "w","x","y","z","0","1","2","3","4","5","6","7","8","9","-","_">>

\* urlsafe_b64decode translates "-" and "_" to "+" and "/", so both spellings
\* of the values 62 and 63 are symbols of the alphabet.
IsB64Symbol(c) == c \in {"+", "/"} \/ \E i \in 1..64 : B64Alphabet[i] = c

B64Value(c) ==
    IF c = "+" THEN 62
    ELSE IF c = "/" THEN 63
    ELSE (CHOOSE i \in 1..64 : B64Alphabet[i] = c) - 1

\* binascii.a2b_base64 in its default (non-strict) mode: symbols outside the
\* alphabet are discarded, "=" closes a quad once at least two symbols of it
\* were read, and a quad left open at the end of the input is an error.
RECURSIVE A2bBase64(_, _, _, _, _, _)
A2bBase64(data, i, quad_pos, leftchar, pads, out) ==
    IF i > Len(data)
    THEN [ok |-> quad_pos = 0, bytes |-> out]
    ELSE LET ch == data[i] IN
         IF ch = "="
         THEN IF quad_pos >= 2 /\ quad_pos + pads + 1 >= 4
              THEN [ok |-> TRUE, bytes |-> out]
              ELSE A2bBase64(data, i + 1, quad_pos, leftchar,
                             IF quad_pos >= 2 THEN pads + 1 ELSE pads, out)
         ELSE IF ~IsB64Symbol(ch)
         THEN A2bBase64(data, i + 1, quad_pos, leftchar, pads, out)
         ELSE LET v == B64Value(ch) IN
              CASE quad_pos = 0 ->
                     A2bBase64(data, i + 1, 1, v, 0, out)
                [] quad_pos = 1 ->
                     A2bBase64(data, i + 1, 2, v % 16, 0,
                               Append(out, leftchar * 4 + v \div 16))
                [] quad_pos = 2 ->
                     A2bBase64(data, i + 1, 3, v % 4, 0,
                               Append(out, leftchar * 16 + v \div 4))
                [] quad_pos = 3 ->
                     A2bBase64(data, i + 1, 0, 0, 0,
                               Append(out, leftchar * 64 + v))

\* bytes.decode('utf-8', errors='ignore') on bytes that are ASCII or do not
\* start a well-formed multi-byte sequence: the ASCII bytes are kept, the
\* others are dropped.
RECURSIVE DecodeUtf8Ignore(_)
DecodeUtf8Ignore(bytes) ==
    IF bytes = <<>> THEN <<>>
    ELSE IF Head(bytes) < 128
         THEN <<Head(bytes)>> \o DecodeUtf8Ignore(Tail(bytes))
         ELSE DecodeUtf8Ignore(Tail(bytes))

Repeat(c, n) == [k \in 1..n |-> c]

NoneText == [ok |-> FALSE, text |-> <<>>]

\* variant: what binascii had decoded before it failed is kept
safe_decode_base64_lenient(data) ==
    IF data = <<>>
    THEN NoneText
    ELSE LET missing_padding == Len(data) % 4
             padded == IF missing_padding # 0
                       THEN data \o Repeat("=", 4 - missing_padding)
                       ELSE data
             decoded == A2bBase64(padded, 1, 0, 0, 0, <<>>)
         IN  [ok |-> TRUE, text |-> DecodeUtf8Ignore(decoded.bytes)]

\* variant: the padding is not restored
safe_decode_base64_unpadded(data) ==
    IF data = <<>>
    THEN NoneText
    ELSE LET decoded == A2bBase64(data, 1, 0, 0, 0, <<>>)
         IN  IF decoded.ok
             THEN [ok |-> TRUE, text |-> DecodeUtf8Ignore(decoded.bytes)]
             ELSE NoneText

safe_decode_base64(data) ==
    IF data = <<>>
    THEN NoneText
    ELSE LET missing_padding == Len(data) % 4
             padded == IF missing_padding # 0
                       THEN data \o Repeat("=", 4 - missing_padding)
                       ELSE data
             decoded == A2bBase64(padded, 1, 0, 0, 0, <<>>)
         IN  IF decoded.ok
             THEN [ok |-> TRUE, text |-> DecodeUtf8Ignore(decoded.bytes)]
             ELSE NoneText

\* Python truth value of an Optional[str].
Truthy(d) == d.ok /\ d.text # <<>>

(***************************************************************************)
(* BeautifulSoup(decoded, 'html.parser').get_text() on well-formed markup: *)
(* everything from "<" to the matching ">" is removed, the rest is kept.   *)
(***************************************************************************)
RECURSIVE get_text(_, _)
get_text(html, inTag) ==
    IF html = <<>> THEN <<>>
    ELSE IF inTag
         THEN get_text(Tail(html), Head(html) # 62)    \* ">"
         ELSE IF Head(html) = 60                       \* "<"
              THEN get_text(Tail(html), TRUE)
              ELSE <<Head(html)>> \o get_text(Tail(html), FALSE)

(***************************************************************************)
(* extract_text_from_payload                                               *)
(***************************************************************************)
HasData(part) == part.data # <<>>

RECURSIVE extract_text_from_payload(_)
RECURSIVE PartsLoop(_, _)

\* variant: no break after a plain-text part, so that a later part
\* overwrites body
PartsLoop_no_break(parts, i) ==
    IF i > Len(parts) THEN <<>>
    ELSE LET part == parts[i]
             rest == PartsLoop(parts, i + 1)
         IN
         IF part.mimeType = "text/plain" /\ HasData(part)
         THEN LET decoded == safe_decode_base64(part.data) IN
              IF Truthy(decoded) /\ rest = <<>> THEN decoded.text ELSE rest
         ELSE IF part.mimeType = "text/html" /\ HasData(part)
         THEN LET decoded == safe_decode_base64(part.data) IN
              IF Truthy(decoded) THEN get_text(decoded.text, FALSE) ELSE rest
         ELSE IF part.hasParts
         THEN LET sub == extract_text_from_payload(part) IN
              IF sub # <<>> THEN sub ELSE rest
         ELSE rest

\* variant: a part whose body cannot be decoded ends the loop
PartsLoop_stop_on_undecodable(parts, i) ==
    IF i > Len(parts) THEN <<>>
    ELSE LET part == parts[i] IN
         IF part.mimeType = "text/plain" /\ HasData(part)
         THEN LET decoded == safe_decode_base64(part.data) IN
              IF Truthy(decoded) THEN decoded.text
              ELSE IF decoded.ok THEN PartsLoop(parts, i + 1) ELSE <<>>
         ELSE IF part.mimeType = "text/html" /\ HasData(part)
         THEN LET decoded == safe_decode_base64(part.data) IN
              IF Truthy(decoded) THEN get_text(decoded.text, FALSE)
              ELSE IF decoded.ok THEN PartsLoop(parts, i + 1) ELSE <<>>
         ELSE IF part.hasParts
         THEN LET sub == extract_text_from_payload(part) IN
              IF sub # <<>> THEN sub
              ELSE PartsLoop(parts, i + 1)
         ELSE PartsLoop(parts, i + 1)

\* the for loop over payload['parts'], from part i on; the value is the
\* value of body when the loop is left.
PartsLoop(parts, i) ==
    IF i > Len(parts) THEN <<>>
    ELSE LET part == parts[i] IN
         IF part.mimeType = "text/plain" /\ HasData(part)
         THEN LET decoded == safe_decode_base64(part.data) IN
              IF Truthy(decoded) THEN decoded.text
              ELSE PartsLoop(parts, i + 1)
         ELSE IF part.mimeType = "text/html" /\ HasData(part)
         THEN LET decoded == safe_decode_base64(part.data) IN
              IF Truthy(decoded) THEN get_text(decoded.text, FALSE)
              ELSE PartsLoop(parts, i + 1)
         ELSE IF part.hasParts
         THEN LET sub == extract_text_from_payload(part) IN
              IF sub # <<>> THEN sub
              ELSE PartsLoop(parts, i + 1)
         ELSE PartsLoop(parts, i + 1)

extract_text_from_payload(p) ==
    IF p.hasParts
    THEN PartsLoop(p.parts, 1)
    ELSE IF p.mimeType = "text/plain" /\ HasData(p)
         THEN LET decoded == safe_decode_base64(p.data) IN
              IF Truthy(decoded) THEN decoded.text ELSE <<>>
         ELSE IF p.mimeType = "text/html" /\ HasData(p)
         THEN LET decoded == safe_decode_base64(p.data) IN
              IF Truthy(decoded) THEN get_text(decoded.text, FALSE) ELSE <<>>
         ELSE <<>>

(***************************************************************************)
(* Message-part trees of at most MaxNodes nodes.  A leaf has no 'parts'    *)
(* key; a container is a multipart/* part without body data.               *)
(***************************************************************************)
Leaf(m, d) == [mimeType |-> m, data |-> d, hasParts |-> FALSE, parts |-> <<>>]
Container(ps) ==
    [mimeType |-> "multipart/mixed", data |-> <<>>, hasParts |-> TRUE, parts |-> ps]

SampleLeaves ==
    { Leaf("text/plain", <<"Q","Q">>),                  \* "A"
      Leaf("text/plain", <<"Q","g">>),                  \* "B"
      Leaf("text/plain", <<"Q">>),                      \* cannot be decoded
      Leaf("text/plain", <<"_","w">>),                  \* decodes to ""
      Leaf("text/plain", <<>>),                         \* no body data
      Leaf("text/html",  <<"P","G","I","-","Q","w">>),  \* "<b>C"
      Leaf("text/html",  <<"P","G","I","-">>),          \* "<b>"
      Leaf("text/html",  <<"Q","Q","!">>),              \* cannot be decoded
      Leaf("image/png",  <<"Q","Q">>) }                 \* attachment

Nodes == SampleLeaves \cup {Container(<<>>)}

RECURSIVE TreeSize(_)
RECURSIVE ForestSize(_)
TreeSize(t) == 1 + ForestSize(t.parts)
ForestSize(f) == IF f = <<>> THEN 0 ELSE TreeSize(Head(f)) + ForestSize(Tail(f))

\* the containers on the rightmost path of t, by their depth
RECURSIVE RightmostContainers(_, _)
RightmostContainers(t, d) ==
    IF ~t.hasParts THEN {}
    ELSE {d} \cup (IF t.parts = <<>> THEN {}
                   ELSE RightmostContainers(t.parts[Len(t.parts)], d + 1))

\* t with node n added as the last part of its rightmost container of depth d
RECURSIVE AddPart(_, _, _)
AddPart(t, d, n) ==
    IF d = 0 THEN [t EXCEPT !.parts = Append(@, n)]
    ELSE [t EXCEPT !.parts[Len(t.parts)] = AddPart(@, d - 1, n)]

(***************************************************************************)
(* Texts handed to the sender.  A text is a sequence of runs; the run      *)
(* [src |-> s, len |-> n] stands for the first n characters of s, where s  *)
(* is the rendered message or the truncation marker.                       *)
(***************************************************************************)
Rendered(n) == IF n = 0 THEN <<>> ELSE <<[src |-> "rendered", len |-> n]>>
MARKER == <<[src |-> "marker", len |-> MARKER_LENGTH]>>

RECURSIVE TextLen(_)
TextLen(t) == IF t = <<>> THEN 0 ELSE Head(t).len + TextLen(Tail(t))

\* t[:n]
RECURSIVE Prefix(_, _)
Prefix(t, n) ==
    IF t = <<>> \/ n = 0 THEN <<>>
    ELSE IF Head(t).len <= n
         THEN <<Head(t)>> \o Prefix(Tail(t), n - Head(t).len)
         ELSE <<[src |-> Head(t).src, len |-> n]>>

\* variant: a message of exactly 4000 characters is cut as well
Truncate_from_limit(t) ==
    IF TextLen(t) >= TELEGRAM_LIMIT THEN Prefix(t, TELEGRAM_LIMIT) \o MARKER ELSE t
\* variant: the marker is added to a long message that is not cut
Truncate_marker_only(t) ==
    IF TextLen(t) > TELEGRAM_LIMIT THEN t \o MARKER ELSE t
\* if len(message) > 4000: message = message[:4000] + "\n\n... (truncated)"
Truncate(t) ==
    IF TextLen(t) > TELEGRAM_LIMIT THEN Prefix(t, TELEGRAM_LIMIT) \o MARKER ELSE t

(***************************************************************************)
(* The request threads.                                                    *)
(***************************************************************************)
CallClasses == {"fetch", "send"}

NoOutcome == [kind |-> "none", status |-> 0, retry_after |-> 0, len |-> 0]
Ok(n)     == [kind |-> "ok", status |-> 200, retry_after |-> 0, len |-> n]
Status(c, ra) == [kind |-> "status", status |-> c, retry_after |-> ra, len |-> 0]
Raised(k) == [kind |-> k, status |-> 0, retry_after |-> 0, len |-> 0]

\* what service.users().messages().list(...).execute() can do
ListOutcomes ==
    { Ok(k) : k \in 0..LIST_MAX_RESULTS }
    \cup { Status(c, 0) : c \in {401, 403, 404, 429, 503} }
    \cup { Raised("conn"), Raised("exc") }

\* what service.users().messages().get(...).execute() can do; len is the
\* length of the text the extractor finds in the message
BodyLengths == {0, MIN_BODY_LENGTH, MIN_BODY_LENGTH + 1}
FetchOutcomes ==
    { Ok(n) : n \in BodyLengths }
    \cup { Status(c, 0) : c \in {401, 403, 404, 429, 503} }
    \cup { Raised("conn"), Raised("exc") }

\* what session.post(url, data=data, timeout=30) can do
SendOutcomes ==
    { Status(c, 0) : c \in {200, 400, 413, 429, 501, 503} }
    \cup { Status(429, 5) }
    \cup { Raised("conn"), Raised("timeout"), Raised("exc") }

\* lengths of the message build_formatted_message renders
RenderedLengths == {300, TELEGRAM_LIMIT, TELEGRAM_LIMIT + 500}

\* distances, in tenths of a mile, from the pickup of the e-mail to the
\* holder of the configured chat: on the radius of the design document and
\* just outside it
Distances == {RADIUS_TENTHS, RADIUS_TENTHS + 1}

NotificationKinds ==
    {"not_json", "no_json", "no_message", "bad_base64", "bad_json", "no_history",
     "ok"}

\* variants: 429 is not retried; 413 is retried
RETRYABLE_STATUS_without_429 == {500, 502, 503, 504}
RETRYABLE_STATUS_with_413 == {413, 429, 500, 502, 503, 504}
\* variant: a 400 is retried
RETRYABLE_STATUS_with_400 == {400, 429, 500, 502, 503, 504}
RETRYABLE_STATUS == {429, 500, 502, 503, 504}
\* variant: only 401 counts as an authentication error
AUTH_STATUS_only_401 == {401}
AUTH_STATUS == {401, 403}

InitThread ==
    [pc |-> "idle", ret |-> "idle", attempt |-> 0, svcArg |-> "None",
     pending |-> 0, processed_count |-> 0, body |-> 0, message |-> <<>>]

\* history of the running call: which call it is ("list", "fetch", "send"),
\* the argument of its last time.sleep, the outcome of its last remote call
\* and of the one before, the number of its remote calls and of its
\* reinitialisations, its return value; and the status of the last response
\* of the handler; for a send, the message it was given, the text of its
\* last post and the distance of the recipient from the pickup
InitHist ==
    [call |-> "none", slept |-> 0, lastOutcome |-> NoOutcome,
     prevOutcome |-> NoOutcome, calls |-> 0, reinits |-> 0,
     result |-> "none", response |-> 0,
     handed |-> <<>>, sent |-> <<>>, distance |-> 0]

Entered(c) == [InitHist EXCEPT !.call = c]

\* history after one more remote call with outcome o, made after time.sleep(nap)
Called(H, nap, o) ==
    [H EXCEPT !.calls = @ + 1, !.slept = nap, !.prevOutcome = H.lastOutcome,
              !.lastOutcome = o]

\* attempt == max_retries - 1
LastAttempt(attempt) == attempt = max_retries - 1

\* time.sleep(2 ** attempt) of the list and fetch loops, time.sleep(1 * attempt)
\* of the send loop, both under "if attempt > 0"
fetch_backoff(attempt) == IF attempt > 0 THEN 2 ^ attempt ELSE 0
\* variant: the send loop backs off like the fetch loop
send_backoff_exponential(attempt) == IF attempt > 0 THEN 2 ^ attempt ELSE 0
send_backoff(attempt) == IF attempt > 0 THEN 1 * attempt ELSE 0

\* variant: the circuit breaker of the design document in front of the send
SendRefused_breaker(msg) ==
    msg = <<>> \/ (/\ streak["send"] >= CIRCUIT_THRESHOLD
                   /\ now - lastFailure["send"] < CIRCUIT_COOLDOWN)
\* variant: the dispatcher of the design document, which leaves out the
\* recipients outside the radius
SendRefused_out_of_radius(msg) ==
    msg = <<>> \/ \E h \in DOMAIN hist : hist[h].distance > RADIUS_TENTHS
\* send_telegram_message: if not message or not TELEGRAM_BOT_TOKEN or not
\* CHAT_ID (token and chat id have defaults, so they are never empty)
SendRefused(msg) == msg = <<>>

\* the locals of a retry loop when it is entered
EnterCall(T, where) == [T EXCEPT !.pc = where, !.attempt = 0]

Set(h, T) == thread' = [thread EXCEPT ![h] = T]
Record(h, H) == hist' = IF observe THEN [hist EXCEPT ![h] = H] ELSE hist

\* the handler returns jsonify(...), code
Respond(h, code) ==
    /\ Set(h, InitThread)
    /\ Record(h, [InitHist EXCEPT !.response = code])

\* variant: an exception raised inside the handler leaves it unanswered
Caught_escapes(h, code) ==
    /\ Set(h, InitThread)
    /\ Record(h, [InitHist EXCEPT !.response = -1])
\* the except handlers of gmail_notify: "except Exception as
\* processing_error" logs and goes on to return 200, the outer "except
\* Exception" returns 500
Caught(h, code) == Respond(h, code)

Min(a, b) == IF a < b THEN a ELSE b

\* history of the calls of class c: the number of consecutive failed calls
\* (counted up to CIRCUIT_THRESHOLD) and the time of the failure that
\* reached the threshold
CallReturned(c, failed) ==
    IF observe
    THEN LET n == IF failed THEN Min(streak[c] + 1, CIRCUIT_THRESHOLD) ELSE 0 IN
         /\ streak' = [streak EXCEPT ![c] = n]
         /\ lastFailure' = [lastFailure EXCEPT ![c] =
                              IF n = CIRCUIT_THRESHOLD THEN now ELSE 0]
    ELSE UNCHANGED <<streak, lastFailure>>

Threads == 1..NumThreads
MainThread == CHOOSE h \in Threads : \A g \in Threads : h <= g

Init ==
    /\ service = "svc"
    /\ last_service_init = 0
    /\ now = 0
    /\ thread = [h \in Threads |-> InitThread]
    /\ hist = [h \in Threads |-> InitHist]
    /\ observe = TRUE
    /\ streak = [c \in CallClasses |-> 0]
    /\ lastFailure = [c \in CallClasses |-> 0]
    /\ payload = Container(<<>>)
    /\ extracted = [done |-> FALSE, text |-> <<>>]
    /\ email = NoEmail
    /\ parsed = NotParsed

\* time passes: by a second, or by a whole refresh interval
Tick ==
    /\ \E d \in {1, SERVICE_REFRESH_INTERVAL} :
          /\ now + d <= MaxTime
          /\ d = 1 => now % SERVICE_REFRESH_INTERVAL < MaxDrift
          /\ now' = now + d
    /\ UNCHANGED <<service, last_service_init, thread, hist, observe, email, parsed, streak,
                   lastFailure, payload, extracted>>

\* reinitialize_service, up to the call of initialize_gmail_service
reinitialize_service(h) ==
    LET T == thread[h]
        H == hist[h]
    IN
    /\ T.pc = "reinit"
    /\ service' = "None"
    /\ Set(h, [T EXCEPT !.pc = "build"])
    /\ Record(h, [H EXCEPT !.reinits = @ + 1])
    /\ UNCHANGED <<last_service_init, now, observe, email, parsed, streak, lastFailure,
                   payload, extracted>>

\* initialize_gmail_service: load_credentials and service = build(...)
initialize_gmail_service(h) ==
    LET T == thread[h] IN
    /\ T.pc = "build"
    /\ \E built \in BOOLEAN :
          IF built
          THEN /\ service' = "svc"
               /\ Set(h, [T EXCEPT !.pc = "profile"])
          ELSE /\ service' = service
               /\ Set(h, [T EXCEPT !.pc = T.ret])
    /\ UNCHANGED <<last_service_init, now, hist, observe, email, parsed, streak, lastFailure,
                   payload, extracted>>

\* initialize_gmail_service: the getProfile test and last_service_init
initialize_gmail_service_test(h) ==
    LET T == thread[h] IN
    /\ T.pc = "profile"
    /\ \E tested \in BOOLEAN :
          last_service_init' = IF tested THEN now ELSE last_service_init
    /\ Set(h, [T EXCEPT !.pc = T.ret])
    /\ UNCHANGED <<service, now, hist, observe, email, parsed, streak, lastFailure,
                   payload, extracted>>

\* gmail_notify: if not service: reinitialize_service()
gmail_notify(h) ==
    LET T == thread[h] IN
    /\ T.pc = "idle"
    /\ IF service = "None"
       THEN Set(h, [InitThread EXCEPT !.pc = "reinit", !.ret = "recheck"])
       ELSE Set(h, [InitThread EXCEPT !.pc = "health"])
    /\ Record(h, InitHist)
    /\ UNCHANGED <<service, last_service_init, now, observe, email, parsed, streak,
                   lastFailure, payload, extracted>>

\* gmail_notify: if not service: return ..., 500
gmail_notify_recheck(h) ==
    LET T == thread[h] IN
    /\ T.pc = "recheck"
    /\ IF service = "None"
       THEN Respond(h, 500)
       ELSE Set(h, [T EXCEPT !.pc = "health"]) /\ Record(h, InitHist)
    /\ UNCHANGED <<service, last_service_init, now, observe, email, parsed, streak,
                   lastFailure, payload, extracted>>

\* check_service_health
check_service_health(h) ==
    LET T == thread[h] IN
    /\ T.pc = "health"
    /\ IF now - last_service_init > SERVICE_REFRESH_INTERVAL
       THEN Set(h, [T EXCEPT !.pc = "reinit", !.ret = "parse"])
       ELSE Set(h, [T EXCEPT !.pc = "parse"])
    /\ UNCHANGED <<service, last_service_init, now, hist, observe, email, parsed, streak,
                   lastFailure, payload, extracted>>

\* gmail_notify: request.get_json() down to history_id
gmail_notify_parse(h) ==
    LET T == thread[h] IN
    /\ T.pc = "parse"
    /\ \E kind \in NotificationKinds :
          CASE kind = "not_json" ->
                 \* request.get_json() raises, caught by the except of line 688
                 Caught(h, 500)
            [] kind \in {"no_json", "bad_base64", "bad_json"} -> Respond(h, 400)
            [] kind \in {"no_message", "no_history"} -> Respond(h, 200)
            [] kind = "ok" -> Set(h, EnterCall(T, "list")) /\ Record(h, Entered("list"))
    /\ UNCHANGED <<service, last_service_init, now, observe, email, parsed, streak,
                   lastFailure, payload, extracted>>

\* gmail_notify: one iteration of the message list retry loop
gmail_notify_list(h) ==
    LET T == thread[h] IN
    /\ T.pc = "list"
    /\ IF service = "None"
       THEN \* AttributeError, caught by the except of line 682
            Caught(h, 200)
       ELSE \E o \in ListOutcomes :
              LET H1 == Called(hist[h], fetch_backoff(T.attempt), o) IN
              CASE o.kind = "ok" ->
                     /\ Set(h, [T EXCEPT !.pc = "loop", !.pending = o.len,
                                         !.processed_count = 0])
                     /\ Record(h, H1)
                [] o.kind = "conn" ->
                     /\ IF LastAttempt(T.attempt)
                        THEN Set(h, [T EXCEPT !.pc = "reinit", !.ret = "resp500"])
                        ELSE IF T.attempt + 1 < max_retries
                             THEN Set(h, [T EXCEPT !.attempt = @ + 1])
                             ELSE \* the loop ends with messages = []
                                  Set(h, [T EXCEPT !.pc = "loop", !.pending = 0,
                                                   !.processed_count = 0])
                     /\ Record(h, H1)
                [] o.kind = "status" ->
                     IF o.status \in AUTH_STATUS
                     THEN /\ Set(h, [T EXCEPT !.pc = "reinit", !.ret = "resp500"])
                          /\ Record(h, H1)
                     ELSE Respond(h, 500)
                [] o.kind = "exc" -> Caught(h, 200)
    /\ UNCHANGED <<service, last_service_init, now, observe, email, parsed, streak,
                   lastFailure, payload, extracted>>

\* gmail_notify: return ..., 500 after reinitialize_service()
gmail_notify_error(h) ==
    LET T == thread[h] IN
    /\ T.pc = "resp500"
    /\ Respond(h, 500)
    /\ UNCHANGED <<service, last_service_init, now, observe, email, parsed, streak,
                   lastFailure, payload, extracted>>

\* variant: all the listed messages are processed
LimitReached_all(processed_count) == processed_count >= LIST_MAX_RESULTS
\* if processed_count >= 1: break
LimitReached(processed_count) == processed_count >= 1

\* gmail_notify: head of "for msg in messages"
gmail_notify_loop(h) ==
    LET T == thread[h] IN
    /\ T.pc = "loop"
    /\ IF LimitReached(T.processed_count) \/ T.pending = 0
       THEN Respond(h, 200)
       ELSE /\ Set(h, [EnterCall(T, "fetch") EXCEPT
                         !.pending = @ - 1, !.svcArg = service,
                         !.body = 0, !.message = <<>>])
            /\ Record(h, Entered("fetch"))
    /\ UNCHANGED <<service, last_service_init, now, observe, email, parsed, streak,
                   lastFailure, payload, extracted>>

\* extract_clean_body_from_gmail: one iteration of its retry loop
extract_clean_body_from_gmail(h) ==
    LET T == thread[h]
        Return(H1, failed) ==
            LET len == IF failed THEN 0 ELSE H1.lastOutcome.len IN
            /\ Set(h, [T EXCEPT !.pc = "after_fetch", !.body = len])
            /\ Record(h, [H1 EXCEPT !.result = IF len = 0 THEN "empty" ELSE "text"])
            /\ CallReturned("fetch", failed)
        Reinitialize(H1) ==
            /\ Set(h, [T EXCEPT !.pc = "reinit", !.ret = "fetch_ret"])
            /\ Record(h, H1)
            /\ UNCHANGED <<streak, lastFailure>>
        \* the next iteration of "for attempt in range(max_retries)", or the
        \* return "" after the loop
        NextAttempt(H1) ==
            IF T.attempt + 1 < max_retries
            THEN /\ Set(h, [T EXCEPT !.attempt = @ + 1])
                 /\ Record(h, H1)
                 /\ UNCHANGED <<streak, lastFailure>>
            ELSE Return(H1, TRUE)
    IN
    /\ T.pc = "fetch"
    /\ IF T.svcArg = "None"
       THEN \* if not service or not message_id: return ""
            /\ Set(h, [T EXCEPT !.pc = "after_fetch", !.body = 0])
            /\ Record(h, [hist[h] EXCEPT !.result = "empty"])
            /\ UNCHANGED <<streak, lastFailure>>
       ELSE \E o \in FetchOutcomes :
              LET H1 == Called(hist[h], fetch_backoff(T.attempt), o) IN
              CASE o.kind = "ok" -> Return(H1, FALSE)
                [] o.kind = "conn" ->
                     IF LastAttempt(T.attempt)
                     THEN Reinitialize(H1)
                     ELSE NextAttempt(H1)
                [] o.kind = "status" ->
                     IF o.status \in AUTH_STATUS
                     THEN Reinitialize(H1)
                     ELSE Return(H1, TRUE)
                [] o.kind = "exc" -> Return(H1, TRUE)
    /\ UNCHANGED <<service, last_service_init, now, observe, email, parsed, payload, extracted>>

\* extract_clean_body_from_gmail: return "" after reinitialize_service()
extract_clean_body_return(h) ==
    LET T == thread[h] IN
    /\ T.pc = "fetch_ret"
    /\ Set(h, [T EXCEPT !.pc = "after_fetch", !.body = 0])
    /\ Record(h, [hist[h] EXCEPT !.result = "empty"])
    /\ CallReturned("fetch", TRUE)
    /\ UNCHANGED <<service, last_service_init, now, observe, email, parsed, payload, extracted>>

\* variant: every fetched body is processed, the empty one included
Substantial_any(body) == body >= 0
\* if body and len(body) > 100, on the length of the body
Substantial(body) == body > MIN_BODY_LENGTH

\* gmail_notify: if body and len(body) > 100: build_formatted_message(body)
gmail_notify_body(h) ==
    LET T == thread[h] IN
    /\ T.pc = "after_fetch"
    /\ IF Substantial(T.body)
       THEN \E n \in RenderedLengths, d \in Distances :
              /\ Set(h, [EnterCall(T, "send") EXCEPT !.message = Rendered(n)])
              /\ Record(h, [Entered("send") EXCEPT !.handed = Rendered(n),
                                                    !.distance = d])
       ELSE Set(h, [T EXCEPT !.pc = "loop"]) /\ Record(h, hist[h])
    /\ UNCHANGED <<service, last_service_init, now, observe, email, parsed, streak,
                   lastFailure, payload, extracted>>

\* send_telegram_message: one iteration of its retry loop, and on return the
\* caller's processed_count += 1
send_telegram_message(h) ==
    LET T == thread[h]
        Return(T1, H1, delivered) ==
            /\ Set(h, [T1 EXCEPT !.pc = "loop", !.processed_count = @ + 1])
            /\ Record(h, [H1 EXCEPT !.result = IF delivered THEN "True" ELSE "False"])
            /\ CallReturned("send", ~delivered)
        \* the next iteration of "for attempt in range(max_retries)", or the
        \* return False after the loop
        NextAttempt(T1, H1) ==
            IF T.attempt + 1 < max_retries
            THEN /\ Set(h, [T1 EXCEPT !.attempt = @ + 1])
                 /\ Record(h, H1)
                 /\ UNCHANGED <<streak, lastFailure>>
            ELSE Return(T1, H1, FALSE)
    IN
    /\ T.pc = "send"
    /\ IF SendRefused(T.message)
       THEN Return(T, hist[h], FALSE)
       ELSE \E o \in SendOutcomes :
              LET T1 == [T EXCEPT !.message = Truncate(@)]
                  H1 == [Called(hist[h], send_backoff(T.attempt), o)
                           EXCEPT !.sent = T1.message]
              IN
              CASE o.kind = "status" /\ o.status = 200 -> Return(T1, H1, TRUE)
                [] o.kind = "status" /\ o.status \in RETRYABLE_STATUS ->
                     \* "continue" before the last attempt, else on to the
                     \* end of the loop body
                     NextAttempt(T1, H1)
                [] o.kind = "status" /\ o.status \notin RETRYABLE_STATUS \cup {200} ->
                     Return(T1, H1, FALSE)
                [] o.kind \in {"conn", "timeout"} ->
                     IF LastAttempt(T.attempt)
                     THEN Return(T1, H1, FALSE)
                     ELSE NextAttempt(T1, H1)
                [] o.kind = "exc" -> Return(T1, H1, FALSE)
    /\ UNCHANGED <<service, last_service_init, now, observe, email, parsed, payload, extracted>>

\* one step of request thread h
Step(h) ==
    \/ gmail_notify(h)
    \/ reinitialize_service(h)
    \/ initialize_gmail_service(h)
    \/ initialize_gmail_service_test(h)
    \/ gmail_notify_recheck(h)
    \/ check_service_health(h)
    \/ gmail_notify_parse(h)
    \/ gmail_notify_list(h)
    \/ gmail_notify_error(h)
    \/ gmail_notify_loop(h)
    \/ extract_clean_body_from_gmail(h)
    \/ extract_clean_body_return(h)
    \/ gmail_notify_body(h)
    \/ send_telegram_message(h)

Next == Tick \/ Step(MainThread)

Spec == Init /\ [][Next]_vars

(***************************************************************************)
(* The handler run by concurrent request threads.                          *)
(***************************************************************************)
InitThreads ==
    /\ service = "svc"
    /\ last_service_init = 0
    /\ now = 0
    /\ thread = [h \in Threads |-> InitThread]
    /\ hist = [h \in Threads |-> InitHist]
    /\ observe = FALSE
    /\ streak = [c \in CallClasses |-> 0]
    /\ lastFailure = [c \in CallClasses |-> 0]
    /\ payload = Container(<<>>)
    /\ extracted = [done |-> FALSE, text |-> <<>>]
    /\ email = NoEmail
    /\ parsed = NotParsed

NextThreads == Tick \/ \E h \in Threads : Step(h)

SpecThreads == InitThreads /\ [][NextThreads]_vars

(***************************************************************************)
(* The text extractor on its own.                                          *)
(***************************************************************************)
InitExtract ==
    /\ service = "svc"
    /\ last_service_init = 0
    /\ now = 0
    /\ thread = [h \in Threads |-> InitThread]
    /\ hist = [h \in Threads |-> InitHist]
    /\ observe = FALSE
    /\ streak = [c \in CallClasses |-> 0]
    /\ lastFailure = [c \in CallClasses |-> 0]
    /\ payload \in Nodes
    /\ extracted = [done |-> FALSE, text |-> <<>>]
    /\ email = NoEmail
    /\ parsed = NotParsed

\* the message grows by one part, in depth-first order
AddNode ==
    /\ ~extracted.done
    /\ TreeSize(payload) < MaxNodes
    /\ \E d \in RightmostContainers(payload, 0), n \in Nodes :
          payload' = AddPart(payload, d, n)
    /\ UNCHANGED <<service, last_service_init, now, thread, hist, observe, email, parsed,
                   streak, lastFailure, extracted>>

Extract ==
    /\ ~extracted.done
    /\ extracted' = [done |-> TRUE, text |-> extract_text_from_payload(payload)]
    /\ UNCHANGED <<service, last_service_init, now, thread, hist, observe, email, parsed,
                   streak, lastFailure, payload>>

NextExtract == AddNode \/ Extract

SpecExtract == InitExtract /\ [][NextExtract]_vars

(***************************************************************************)
(* Regular expressions as Python's re matches them: backtracking, greedy   *)
(* repetition, leftmost match.  A string is a sequence of one-character    *)
(* strings.  A pattern is a tree of nodes; max = -1 is "no upper limit".   *)
(***************************************************************************)
Node(t, set, neg, items, min, max, n) ==
    [t |-> t, set |-> set, neg |-> neg, items |-> items, min |-> min,
     max |-> max, n |-> n]
Chr(S) == Node("chr", S, FALSE, <<>>, 0, 0, 0)        \* [...]
NotChr(S) == Node("chr", S, TRUE, <<>>, 0, 0, 0)      \* [^...]
Cat(items) == Node("seq", {}, FALSE, items, 0, 0, 0)  \* r1 r2 ...
Alt(items) == Node("alt", {}, FALSE, items, 0, 0, 0)  \* r1|r2|...
Rep(r, lo, hi) == Node("rep", {}, FALSE, <<r>>, lo, hi, 0)   \* r{lo,hi}
Star(r) == Rep(r, 0, -1)
Plus(r) == Rep(r, 1, -1)
Opt(r) == Rep(r, 0, 1)
Open(k) == Node("open", {}, FALSE, <<>>, 0, 0, k)
Close(k) == Node("close", {}, FALSE, <<>>, 0, 0, k)
Group(k, r) == Cat(<<Open(k), r, Close(k)>>)          \* (r), group k

LowerCase == <<"a", "b", "c", "d", "e", "f", "g", "h", "i", "j", "k", "l", "m", "n", "o", "p", "q", "r", "s", "t", "u", "v", "w", "x", "y", "z">>
UpperCase == <<"A", "B", "C", "D", "E", "F", "G", "H", "I", "J", "K", "L", "M", "N", "O", "P", "Q", "R", "S", "T", "U", "V", "W", "X", "Y", "Z">>
\* the characters that match c under re.IGNORECASE
BothCases(c) ==
    IF \E k \in 1..Len(LowerCase) : c \in {LowerCase[k], UpperCase[k]}
    THEN LET k == CHOOSE k \in 1..Len(LowerCase) : c \in {LowerCase[k], UpperCase[k]}
         IN  {LowerCase[k], UpperCase[k]}
    ELSE {c}
Lit(str) == Cat([k \in 1..Len(str) |-> Chr({str[k]})])
LitI(str) == Cat([k \in 1..Len(str) |-> Chr(BothCases(str[k]))])

Whitespace == {" ", "\t", "\n", "\r", "\f"}     \* \s
Digit == {"0", "1", "2", "3", "4", "5", "6", "7", "8", "9"}   \* \d
CRLF == {"\r", "\n"}

\* the groups of a match: group k is s[g[k][1] .. g[k][2]]
NoGroups == [k \in 1..3 |-> <<0, -1>>]
NoMatch == [ok |-> FALSE, pos |-> 0, g |-> NoGroups]

\* the end of the longest run of characters of class r (a "chr" node) that
\* starts at position i of s and has at most max characters (-1: any number)
RunEnd(r, s, i, max) ==
    LET last == IF max >= 0 /\ i + max <= Len(s) THEN i + max ELSE Len(s) + 1
        stops == { j \in i..last : j = last \/ ((s[j] \in r.set) = r.neg) }
    IN  CHOOSE j \in stops : \A j2 \in stops : j <= j2

\* the first way, in the order Python tries them, to match the patterns of
\* todo one after the other from position i of s.  A repetition is greedy:
\* the longest run is tried first, then the shorter ones.
RECURSIVE Match(_, _, _, _)
Match(todo, s, i, g) ==
    IF todo = <<>> THEN [ok |-> TRUE, pos |-> i, g |-> g]
    ELSE LET r == Head(todo)
             rest == Tail(todo)
         IN
         CASE r.t = "chr" ->
                IF i <= Len(s) /\ ((s[i] \in r.set) # r.neg)
                THEN Match(rest, s, i + 1, g)
                ELSE NoMatch
           [] r.t = "seq" -> Match(r.items \o rest, s, i, g)
           [] r.t = "alt" ->
                IF r.items = <<>> THEN NoMatch
                ELSE LET m == Match(<<Head(r.items)>> \o rest, s, i, g) IN
                     IF m.ok THEN m
                     ELSE Match(<<Alt(Tail(r.items))>> \o rest, s, i, g)
           [] r.t = "rep" /\ r.items[1].t = "chr" ->
                LET longest == RunEnd(r.items[1], s, i, r.max)
                    first == Match(rest, s, longest, g)
                    ends == { e \in (i + r.min)..(longest - 1) :
                                 Match(rest, s, e, g).ok }
                IN  IF longest < i + r.min THEN NoMatch
                    ELSE IF first.ok THEN first
                    ELSE IF ends = {} THEN NoMatch
                    ELSE Match(rest, s,
                               CHOOSE e \in ends : \A e2 \in ends : e2 <= e, g)
           [] r.t = "rep" /\ r.items[1].t # "chr" ->
                LET more == IF r.max = 0 THEN NoMatch
                            ELSE Match(<<r.items[1],
                                         Rep(r.items[1],
                                             IF r.min > 0 THEN r.min - 1 ELSE 0,
                                             IF r.max > 0 THEN r.max - 1 ELSE r.max)>>
                                       \o rest, s, i, g)
                IN  IF more.ok THEN more
                    ELSE IF r.min = 0 THEN Match(rest, s, i, g)
                    ELSE NoMatch
           [] r.t = "open" -> Match(rest, s, i, [g EXCEPT ![r.n] = <<i, i - 1>>])
           [] r.t = "close" -> Match(rest, s, i, [g EXCEPT ![r.n] = <<@[1], i - 1>>])

\* the character class every match of r starts with, when r shows one: a
\* "chr" node, or an "alt" node when it shows none
RECURSIVE Lead(_)
Lead(r) ==
    CASE r.t = "chr" -> r
      [] r.t = "seq" /\ r.items # <<>> /\ r.items[1].t = "open" ->
           IF Len(r.items) >= 2 THEN Lead(r.items[2]) ELSE Alt(<<>>)
      [] r.t = "seq" /\ r.items # <<>> /\ r.items[1].t # "open" -> Lead(r.items[1])
      [] r.t = "rep" /\ r.min > 0 -> Lead(r.items[1])
      [] OTHER -> Alt(<<>>)

\* re.search(pattern, s): the match at the leftmost position that has one
\* (a position whose character is outside Lead(pattern) has none)
re_search(pattern, s) ==
    LET lead == Lead(pattern)
        starts == { i \in 1..(Len(s) + 1) :
                      /\ lead.t = "chr" =>
                            (i <= Len(s) /\ ((s[i] \in lead.set) # lead.neg))
                      /\ Match(<<pattern>>, s, i, NoGroups).ok }
    IN  IF starts = {} THEN NoMatch
        ELSE Match(<<pattern>>, s,
                   CHOOSE i \in starts : \A i2 \in starts : i <= i2, NoGroups)

\* match.group(k)
group(s, m, k) == SubSeq(s, m.g[k][1], m.g[k][2])

\* str.strip()
RECURSIVE LStrip(_)
LStrip(t) == IF t # <<>> /\ Head(t) \in Whitespace THEN LStrip(Tail(t)) ELSE t
RECURSIVE RStrip(_)
RStrip(t) ==
    IF t # <<>> /\ t[Len(t)] \in Whitespace THEN RStrip(SubSeq(t, 1, Len(t) - 1))
    ELSE t
strip(t) == RStrip(LStrip(t))

Some(t) == [ok |-> TRUE, text |-> t]
\* x or default
OrDefault(x, default) == IF Truthy(x) THEN x.text ELSE default

(***************************************************************************)
(* extract_pickup_info, extract_delivery_info                              *)
(***************************************************************************)
Line == Plus(NotChr(CRLF))                             \* [^\r\n]+
Newlines == Plus(Chr(CRLF))                            \* [\r\n]+
ToEndOfLine == Plus(NotChr({"\n"}))                     \* [^\n]+
Separator == Plus(Chr({":", "-", " "}))                \* [:\- ]+
PickUpMarker ==                                        \* (?i)Pick[- ]?Up
    Cat(<<LitI(<<"P", "i", "c", "k">>), Opt(Chr({"-", " "})), LitI(<<"U", "p">>)>>)

\* variant: the groups are the second and the third line after the marker
pickup_pattern_skip_line ==
    Cat(<<PickUpMarker, Star(Chr(Whitespace)), Newlines, Line, Newlines,
          Group(1, Line), Newlines, Group(2, Line)>>)
\* (?i)Pick[- ]?Up\s*[\r\n]+([^\r\n]+)[\r\n]+([^\r\n]+)
pickup_pattern ==
    Cat(<<PickUpMarker, Star(Chr(Whitespace)), Newlines, Group(1, Line),
          Newlines, Group(2, Line)>>)

pickup_fallback_patterns ==
    << Cat(<<PickUpMarker, Star(Chr(Whitespace)), Newlines, Group(1, Line)>>),
       Cat(<<LitI(<<"P", "i", "c", "k", "u", "p", " ", "L", "o", "c", "a", "t", "i", "o", "n">>), Separator, Star(Chr(Whitespace)),
             Group(1, ToEndOfLine)>>),
       Cat(<<PickUpMarker, Separator, Star(Chr(Whitespace)),
             Group(1, ToEndOfLine)>>),
       Cat(<<LitI(<<"P", "i", "c", "k", "u", "p">>), Separator, Star(Chr(Whitespace)),
             Group(1, ToEndOfLine)>>),
       Cat(<<LitI(<<"P", "/", "U">>), Separator, Star(Chr(Whitespace)),
             Group(1, ToEndOfLine)>>) >>

\* for pattern in fallback_patterns: the first pattern with a match gives
\* (match.group(1).strip(), None)
RECURSIVE Fallback(_, _, _)
Fallback(patterns, body, k) ==
    IF k > Len(patterns) THEN <<NoneText, NoneText>>
    ELSE LET m == re_search(patterns[k], body) IN
         IF m.ok THEN <<Some(strip(group(body, m, 1))), NoneText>>
         ELSE Fallback(patterns, body, k + 1)

extract_pickup_info(body, raises) ==
    IF body = <<>> \/ raises THEN <<NoneText, NoneText>>
    ELSE LET m == re_search(pickup_pattern, body) IN
         IF m.ok
         THEN <<Some(strip(group(body, m, 1))), Some(strip(group(body, m, 2)))>>
         ELSE Fallback(pickup_fallback_patterns, body, 1)

DeliveryMarker == LitI(<<"D", "e", "l", "i", "v", "e", "r", "y">>)

\* (?i)Delivery\s*[\r\n]+([^\r\n]+)[\r\n]+([^\r\n]+)
delivery_pattern ==
    Cat(<<DeliveryMarker, Star(Chr(Whitespace)), Newlines, Group(1, Line),
          Newlines, Group(2, Line)>>)

\* (?i)Delivery\s*[\r\n]+([^\r\n]+)[\r\n]+([^\r\n]+)[\r\n]+([^\r\n]+)
extended_pattern ==
    Cat(<<DeliveryMarker, Star(Chr(Whitespace)), Newlines, Group(1, Line),
          Newlines, Group(2, Line), Newlines, Group(3, Line)>>)

\* variant: only a numeric date counts as a date
date_shape_numeric_only ==
    Cat(<<Rep(Chr(Digit), 1, 2), Lit(<<"/">>), Rep(Chr(Digit), 1, 2),
          Lit(<<"/">>), Rep(Chr(Digit), 2, 4)>>)
\* \d{1,2}/\d{1,2}/\d{2,4}|\d{1,2}:\d{2}|ASAP|Direct, re.IGNORECASE
date_shape ==
    Alt(<< Cat(<<Rep(Chr(Digit), 1, 2), Lit(<<"/">>), Rep(Chr(Digit), 1, 2),
                 Lit(<<"/">>), Rep(Chr(Digit), 2, 4)>>),
           Cat(<<Rep(Chr(Digit), 1, 2), Lit(<<":">>), Rep(Chr(Digit), 2, 2)>>),
           LitI(<<"A", "S", "A", "P">>),
           LitI(<<"D", "i", "r", "e", "c", "t">>) >>)

delivery_fallback_patterns ==
    << Cat(<<DeliveryMarker, Star(Chr(Whitespace)), Newlines, Group(1, Line)>>),
       Cat(<<LitI(<<"D", "e", "l", "i", "v", "e", "r", " ", "t", "o">>), Separator, Star(Chr(Whitespace)),
             Group(1, ToEndOfLine)>>),
       Cat(<<LitI(<<"D", "e", "l", "i", "v", "e", "r", "y", " ", "L", "o", "c", "a", "t", "i", "o", "n">>), Separator, Star(Chr(Whitespace)),
             Group(1, ToEndOfLine)>>) >>

extract_delivery_info(body, raises) ==
    IF body = <<>> \/ raises THEN <<NoneText, NoneText>>
    ELSE LET m == re_search(delivery_pattern, body) IN
         IF m.ok
         THEN LET delivery_address == strip(group(body, m, 1))
                  delivery_info == strip(group(body, m, 2))
              IN  IF re_search(date_shape, delivery_info).ok
                  THEN <<Some(delivery_address), Some(delivery_info)>>
                  ELSE LET extended_match == re_search(extended_pattern, body) IN
                       IF extended_match.ok
                       THEN <<Some(delivery_address \o <<" ">> \o delivery_info),
                              Some(strip(group(body, extended_match, 3)))>>
                       ELSE <<Some(delivery_address), Some(delivery_info)>>
         ELSE Fallback(delivery_fallback_patterns, body, 1)

(***************************************************************************)
(* build_formatted_message                                                 *)
(***************************************************************************)
\* the fields find() extracts, with the label each pattern starts with
FindFields ==
    {"pieces", "weight", "dims", "stackable", "truck_size", "notes",
     "broker_name", "broker_company", "broker_phone", "posted_amount"}
Fields ==
    FindFields \cup {"pickup_address", "pickup_date", "delivery_address",
                     "delivery_date", "estimated_miles"}
Label(f) ==
    CASE f = "pieces" -> <<"P", "i", "e", "c", "e", "s", ":">>
      [] f = "weight" -> <<"W", "e", "i", "g", "h", "t", ":">>
      [] f = "dims" -> <<"D", "i", "m", "e", "n", "s", "i", "o", "n", "s", ":">>
      [] f = "stackable" -> <<"S", "t", "a", "c", "k", "a", "b", "l", "e", ":">>
      [] f = "truck_size" -> <<"V", "e", "h", "i", "c", "l", "e", " ", "r", "e", "q", "u", "i", "r", "e", "d", ":">>
      [] f = "notes" -> <<"N", "o", "t", "e", "s", ":">>
      [] f = "broker_name" -> <<"B", "r", "o", "k", "e", "r", " ", "N", "a", "m", "e", ":">>
      [] f = "broker_company" -> <<"B", "r", "o", "k", "e", "r", " ", "C", "o", "m", "p", "a", "n", "y", ":">>
      [] f = "broker_phone" -> <<"B", "r", "o", "k", "e", "r", " ", "P", "h", "o", "n", "e", ":">>
      [] f = "posted_amount" -> <<"P", "o", "s", "t", "e", "d", " ", "A", "m", "o", "u", "n", "t", ":">>

NA == <<"N", "/", "A">>
ASAP == <<"A", "S", "A", "P">>
UnknownPickup == <<"U", "n", "k", "n", "o", "w", "n", " ", "P", "i", "c", "k", "u", "p">>
UnknownDelivery == <<"U", "n", "k", "n", "o", "w", "n", " ", "D", "e", "l", "i", "v", "e", "r", "y">>

\* find(pattern, default): re.search(pattern, body, re.IGNORECASE), then
\* match.group(1).strip() if match and match.group(1) else default
find(body, pattern, default, raises) ==
    IF raises THEN default
    ELSE LET m == re_search(pattern, body) IN
         IF m.ok /\ group(body, m, 1) # <<>> THEN strip(group(body, m, 1))
         ELSE default

\* Label:\s*(.*)
FieldPattern ==
    [f \in FindFields |->
       Cat(<<LitI(Label(f)), Star(Chr(Whitespace)), Group(1, Star(NotChr({"\n"})))>>)]

\* (\d+ STOPS?,\s*[0-9,]+ MILES), searched with re.IGNORECASE
stops_miles_pattern ==
    Group(1, Cat(<<Plus(Chr(Digit)), LitI(<<" ", "S", "T", "O", "P">>), Opt(Chr({"s", "S"})),
                   Lit(<<",">>), Star(Chr(Whitespace)),
                   Plus(Chr(Digit \cup {","})), LitI(<<" ", "M", "I", "L", "E", "S">>)>>))

\* variant: the distance is the last run of digits in front of MILES
estimated_miles_pattern_digits_only ==
    Cat(<<Group(1, Plus(Chr(Digit))), Star(Chr(Whitespace)), Lit(<<"M", "I", "L", "E", "S">>)>>)
\* (\d{1,3}(?:,\d{3})*|\d+)\s*MILES, searched without flags
estimated_miles_pattern ==
    Cat(<<Group(1, Alt(<< Cat(<<Rep(Chr(Digit), 1, 3),
                                Star(Cat(<<Lit(<<",">>), Rep(Chr(Digit), 3, 3)>>))>>),
                          Plus(Chr(Digit)) >>)),
          Star(Chr(Whitespace)), Lit(<<"M", "I", "L", "E", "S">>)>>)

max_len == 200
Ellipsis == <<".", ".", ".">>
\* text[:max_len] + "..." if len(text) > max_len else text
limit_length(text) ==
    IF Len(text) > max_len THEN SubSeq(text, 1, max_len) \o Ellipsis ELSE text

\* the fields the template passes through limit_length (lines 320-339)
LimitedFields == Fields \ {"estimated_miles", "stackable"}

\* the operations of build_formatted_message that can raise: the two block
\* extractors, each find(), and the code of the outer try block
FaultPoints == {"pickup", "delivery", "stops_miles", "outer"} \cup FindFields

\* variant: an empty body is parsed like any other text
EmptyBody_never(body) == FALSE
\* if not body
EmptyBody(body) == body = <<>>

\* variant: a failure inside a helper reaches the outer except
Absorbed_none(fault) == FALSE
\* the failures caught where they happen: extract_pickup_info and
\* extract_delivery_info return (None, None), find returns its default
Absorbed(fault) == fault \in {"pickup", "delivery", "stops_miles"} \cup FindFields

\* The result is the text of the message: "empty_error" and
\* "processing_error" are the two error texts, "alert" is the template filled
\* with the rendered fields; record keeps the values before limit_length.
build_formatted_message(body, fault) ==
    IF EmptyBody(body) THEN [kind |-> "empty_error"]
    ELSE IF fault # "none" /\ ~Absorbed(fault) THEN [kind |-> "processing_error"]
    ELSE
    LET pickup == extract_pickup_info(body, fault = "pickup")
        delivery == extract_delivery_info(body, fault = "delivery")
        stops_miles ==
            find(body, stops_miles_pattern, <<>>, fault = "stops_miles")
        estimated_miles_match == re_search(estimated_miles_pattern, stops_miles)
        record == [f \in Fields |->
            CASE f = "pickup_address" -> OrDefault(pickup[1], UnknownPickup)
              [] f = "pickup_date" -> OrDefault(pickup[2], ASAP)
              [] f = "delivery_address" -> OrDefault(delivery[1], UnknownDelivery)
              [] f = "delivery_date" -> OrDefault(delivery[2], NA)
              [] f = "estimated_miles" ->
                   IF estimated_miles_match.ok
                   THEN group(stops_miles, estimated_miles_match, 1)
                   ELSE NA
              [] OTHER -> find(body, FieldPattern[f], NA, fault = f)]
    IN  [kind |-> "alert",
         record |-> record,
         rendered |-> [f \in Fields |->
                         IF f \in LimitedFields THEN limit_length(record[f])
                         ELSE record[f]]]


(***************************************************************************)
(* The parser on its own: an e-mail body is put together line by line and  *)
(* handed to build_formatted_message.  SpecParse draws the lines from the  *)
(* pickup, delivery and distance blocks of a load offer; SpecRender draws  *)
(* them from labelled fields with long values, and lets one operation of   *)
(* the parser raise.                                                       *)
(***************************************************************************)
BlockLines ==
    { <<"P", "i", "c", "k", "-", "U", "p">>,
      <<"D", "e", "l", "i", "v", "e", "r", "y">>,
      <<"L", "a", "r", "e", "d", "o", ",", " ", "T", "X", " ", "7", "8", "0", "4", "0", " ">>,
      <<"D", "e", "l", "i", "v", "e", "r", " ", "D", "i", "r", "e", "c", "t">>,
      <<"S", "u", "i", "t", "e", " ", "5">>,
      <<"0", "8", "/", "1", "2", "/", "2", "0", "2", "5", " ", "0", "9", ":", "0", "0">>,
      <<"2", " ", "S", "T", "O", "P", "S", ",", " ", "1", ",", "2", "6", "9", " ", "M", "I", "L", "E", "S">>,
      <<>> }

FieldLines ==
    { <<"P", "i", "c", "k", "-", "U", "p">>,
      Repeat("a", max_len + 1),
      <<"N", "o", "t", "e", "s", ":", " ">> \o Repeat("n", max_len + 1),
      <<"S", "t", "a", "c", "k", "a", "b", "l", "e", ":", " ">> \o Repeat("s", max_len + 1),
      <<"P", "i", "e", "c", "e", "s", ":", " ">> \o Repeat("p", max_len),
      <<"B", "r", "o", "k", "e", "r", " ", "N", "a", "m", "e", ":", " ", "A", "n", "n">> }

SampleLines(suite) == IF suite = "blocks" THEN BlockLines ELSE FieldLines
LineLimit(suite) == IF suite = "blocks" THEN MaxLines ELSE MaxFieldLines
Faults(suite) == IF suite = "blocks" THEN {"none"} ELSE {"none"} \cup FaultPoints

\* the body: the lines joined by "\n"
RECURSIVE Body(_)
Body(lines) ==
    IF lines = <<>> THEN <<>>
    ELSE IF Len(lines) = 1 THEN lines[1]
    ELSE lines[1] \o <<"\n">> \o Body(Tail(lines))

InitParse ==
    /\ service = "svc"
    /\ last_service_init = 0
    /\ now = 0
    /\ thread = [h \in Threads |-> InitThread]
    /\ hist = [h \in Threads |-> InitHist]
    /\ observe = FALSE
    /\ streak = [c \in CallClasses |-> 0]
    /\ lastFailure = [c \in CallClasses |-> 0]
    /\ payload = Container(<<>>)
    /\ extracted = [done |-> FALSE, text |-> <<>>]
    /\ email = [suite |-> "blocks", lines |-> <<>>]
    /\ parsed = NotParsed

InitRender ==
    /\ service = "svc"
    /\ last_service_init = 0
    /\ now = 0
    /\ thread = [h \in Threads |-> InitThread]
    /\ hist = [h \in Threads |-> InitHist]
    /\ observe = FALSE
    /\ streak = [c \in CallClasses |-> 0]
    /\ lastFailure = [c \in CallClasses |-> 0]
    /\ payload = Container(<<>>)
    /\ extracted = [done |-> FALSE, text |-> <<>>]
    /\ email = [suite |-> "fields", lines |-> <<>>]
    /\ parsed = NotParsed

\* the body grows by one line
AddLine ==
    /\ ~parsed.done
    /\ Len(email.lines) < LineLimit(email.suite)
    /\ \E l \in SampleLines(email.suite) :
          email' = [email EXCEPT !.lines = Append(@, l)]
    /\ UNCHANGED <<service, last_service_init, now, thread, hist, observe,
                   streak, lastFailure, payload, extracted, parsed>>

\* formatted_message = build_formatted_message(body)
Parse ==
    /\ ~parsed.done
    /\ \E fault \in Faults(email.suite) :
          parsed' = [done |-> TRUE, fault |-> fault,
                     message |-> build_formatted_message(Body(email.lines), fault)]
    /\ UNCHANGED <<service, last_service_init, now, thread, hist, observe,
                   streak, lastFailure, payload, extracted, email>>

NextParse == AddLine \/ Parse

SpecParse == InitParse /\ [][NextParse]_vars

SpecRender == InitRender /\ [][NextParse]_vars

TypeOK ==
    /\ service \in {"None", "svc"}
    /\ now \in 0..MaxTime
    /\ \A h \in Threads : thread[h].attempt \in 0..(max_retries - 1)

(***************************************************************************)
(* Properties of the retry loops (Spec).                                   *)
(***************************************************************************)
T0 == thread[MainThread]
H0 == hist[MainThread]

\* the position of the retry loop of call c
InLoop(c) == H0.call = c /\ T0.pc = c

CircuitOpen(c) ==
    /\ streak[c] = CIRCUIT_THRESHOLD
    /\ now - lastFailure[c] < CIRCUIT_COOLDOWN

C3_AtMostThreeAttempts ==
    /\ [] ( /\ H0.call \in {"fetch", "send"} => H0.calls <= 3
            /\ \A c \in {"fetch", "send"} :
                  InLoop(c) => (H0.calls = T0.attempt /\ T0.attempt < 3)
            /\ (H0.call = "send" /\ H0.result # "none") =>
                  /\ H0.result \in {"True", "False"}
                  /\ H0.lastOutcome # Status(200, 0) => H0.result = "False"
            /\ (H0.call = "fetch" /\ H0.result # "none"
                   /\ H0.lastOutcome.kind # "ok") =>
                  (H0.result = "empty" /\ T0.body = 0) )
    /\ [][ \A c \in {"fetch", "send"} :
             (InLoop(c) /\ <<thread, hist>>' # <<thread, hist>>) =>
                \/ thread'[MainThread].pc # c
                \/ thread'[MainThread].attempt = T0.attempt + 1 ]_vars

\* a send call has returned False after three failed attempts
C3_Witness ==
    /\ H0.call = "send"
    /\ H0.calls = 3
    /\ H0.lastOutcome = Raised("conn")
    /\ H0.result = "False"

\* an outcome the design document calls retryable
ClaimedRetryable(o) ==
    \/ o.kind = "conn"
    \/ o.kind = "status" /\ (o.status = 429 \/ o.status \in 500..599)

\* C4, as stated: in both loops a connection error, a 429 or any 5xx on an
\* attempt that is not the last one is followed by another attempt.
C4_RetryableAlwaysRetried ==
    \A c \in {"fetch", "send"} :
       (H0.call = c /\ H0.calls \in 1..2 /\ ClaimedRetryable(H0.lastOutcome))
       => (T0.pc = c /\ H0.result = "none")

\* C4, amended: the send loop goes on after a connection error, a timeout or
\* a status 429, 500, 502, 503 or 504 on an attempt that is not the last one;
\* the list and fetch loops go on after a connection error only: any HTTP
\* error status, 429 and 5xx included, ends them at once, and so does a 5xx
\* outside that list for the send loop.
C4_RetriedOutcomes ==
    /\ ( /\ H0.call = "send"
         /\ H0.calls \in 1..2
         /\ \/ H0.lastOutcome.kind \in {"conn", "timeout"}
            \/ /\ H0.lastOutcome.kind = "status"
               /\ H0.lastOutcome.status \in {429, 500, 502, 503, 504} )
       => (T0.pc = "send" /\ H0.result = "none")
    /\ ( /\ H0.call \in {"list", "fetch"}
         /\ H0.calls \in 1..2
         /\ H0.lastOutcome.kind = "conn" )
       => (T0.pc = H0.call /\ H0.result = "none")
    /\ (H0.call \in {"list", "fetch"} /\ H0.lastOutcome.kind = "status")
       => T0.pc \notin {"list", "fetch"}
    /\ (H0.call = "fetch" /\ H0.lastOutcome.kind = "status"
           /\ H0.lastOutcome.status \notin {401, 403})
       => H0.result = "empty"
    /\ (H0.call = "send" /\ H0.lastOutcome = Status(501, 0))
       => H0.result = "False"

\* a fetch has returned "" after a single attempt answered with 503
C4_Witness ==
    /\ H0.call = "fetch"
    /\ H0.calls = 1
    /\ H0.lastOutcome = Status(503, 0)
    /\ H0.result = "empty"

\* C5: a send attempt answered with a 4xx other than 429 is the last one of
\* its call, and the call has returned False.
C5_FatalStatusEndsSend ==
    ( /\ H0.call = "send"
      /\ H0.lastOutcome.kind = "status"
      /\ H0.lastOutcome.status \in 400..499
      /\ H0.lastOutcome.status # 429 )
    => (T0.pc # "send" /\ H0.result = "False")

\* the first attempt of a send was answered with 413
C5_Witness ==
    /\ H0.call = "send"
    /\ H0.calls = 1
    /\ H0.lastOutcome = Status(413, 0)
    /\ H0.result = "False"

\* a send attempt was made after one answered with 429 and Retry-After: 5
AfterRetryAfter ==
    /\ H0.call = "send"
    /\ H0.calls >= 2
    /\ H0.prevOutcome = Status(429, 5)

C7_AuthErrorReinitialisesOnce ==
    (H0.call = "fetch" /\ H0.lastOutcome.kind = "status") =>
       /\ T0.pc # "fetch"
       /\ H0.result \in {"none", "empty"}
       /\ H0.lastOutcome.status \in {401, 403} =>
            /\ H0.reinits <= 1
            /\ T0.pc \in {"reinit", "build", "profile", "fetch_ret"} \/ H0.result = "empty"
            /\ H0.result = "empty" => (H0.reinits = 1 /\ T0.body = 0)
       /\ H0.lastOutcome.status \notin {401, 403} =>
            (H0.result = "empty" /\ H0.reinits = 0 /\ T0.body = 0)

\* a fetch has returned "" after a connection error and then a 403
C7_Witness ==
    /\ H0.call = "fetch"
    /\ H0.calls = 2
    /\ H0.lastOutcome = Status(403, 0)
    /\ H0.reinits = 1
    /\ H0.result = "empty"

(***************************************************************************)
(* Properties of the concurrent handlers (SpecThreads).                    *)
(***************************************************************************)
\* thread g is inside reinitialize_service, between service = None and the
\* end of initialize_gmail_service
Updating(g) == thread[g].pc \in {"build", "profile"}

\* the next step of thread h reads or writes service or last_service_init
AccessesShared(h) ==
    thread[h].pc \in {"idle", "recheck", "health", "list", "loop",
                      "reinit", "build", "profile"}

\* C2: updates of the shared state exclude each other and exclude its
\* readers: while a thread is inside an update, no other thread takes a step
\* that reads or writes the shared state.
C2_SharedStateExclusive ==
    [][ \A h, g \in Threads :
          (h # g /\ Updating(g) /\ AccessesShared(h)) => thread'[h] = thread[h] ]_vars

(***************************************************************************)
(* Properties of the text extractor (SpecExtract).                         *)
(***************************************************************************)
\* The text Python decodes each sample body to (urlsafe_b64decode, then
\* decode('utf-8', errors='ignore')); <<>> where it decodes none.
ExpectedDecoded(data) ==
    CASE data = <<"Q","Q">> -> <<65>>                          \* "A"
      [] data = <<"Q","g">> -> <<66>>                          \* "B"
      [] data = <<"P","G","I","-","Q","w">> -> <<60, 98, 62, 67>>  \* "<b>C"
      [] data = <<"P","G","I","-">> -> <<60, 98, 62>>            \* "<b>"
      [] OTHER -> <<>>

\* ... and the text such a decoded body holds outside its tags
ExpectedStripped(text) ==
    CASE text = <<60, 98, 62, 67>> -> <<67>>
      [] text = <<60, 98, 62>> -> <<>>
      [] OTHER -> text

\* the leaves of a tree in depth-first declaration order
RECURSIVE LeavesOf(_)
RECURSIVE LeavesOfAll(_)
LeavesOf(t) == IF t.hasParts THEN LeavesOfAll(t.parts) ELSE <<t>>
LeavesOfAll(f) ==
    IF f = <<>> THEN <<>> ELSE LeavesOf(Head(f)) \o LeavesOfAll(Tail(f))

TextBearing(l) ==
    l.mimeType \in {"text/plain", "text/html"} /\ ExpectedDecoded(l.data) # <<>>
PlainBearing(l) == l.mimeType = "text/plain" /\ ExpectedDecoded(l.data) # <<>>
HtmlBearing(l) == l.mimeType = "text/html" /\ ExpectedDecoded(l.data) # <<>>

\* the index of the first leaf of ls that satisfies P, 0 if there is none
FirstIndex(ls, P(_)) ==
    IF \E i \in 1..Len(ls) : P(ls[i])
    THEN CHOOSE i \in 1..Len(ls) : P(ls[i]) /\ \A j \in 1..(i - 1) : ~P(ls[j])
    ELSE 0

RECURSIVE Depth(_)
Depth(t) ==
    IF t.parts = <<>> THEN 0
    ELSE 1 + (CHOOSE d \in 0..MaxNodes :
                /\ \E i \in 1..Len(t.parts) : Depth(t.parts[i]) = d
                /\ \A i \in 1..Len(t.parts) : Depth(t.parts[i]) <= d)

\* C8: a tree without a text-bearing leaf yields the empty string.
C8_NoTextYieldsEmpty ==
    (extracted.done /\ \A i \in 1..Len(LeavesOf(payload)) :
                          ~TextBearing(LeavesOf(payload)[i]))
    => extracted.text = <<>>

\* a nested tree with parts that cannot be decoded, decode to nothing or are
\* attachments
C8_Witness ==
    /\ extracted.done
    /\ extracted.text = <<>>
    /\ Depth(payload) >= 2
    /\ LET ls == LeavesOf(payload) IN
       /\ Len(ls) >= 3
       /\ \A i \in 1..Len(ls) : ~TextBearing(ls[i])
       /\ \E i \in 1..Len(ls) : ls[i] = Leaf("text/plain", <<"Q">>)
       /\ \E i \in 1..Len(ls) : ls[i] = Leaf("text/html", <<"Q","Q","!">>)
       /\ \E i \in 1..Len(ls) : ls[i] = Leaf("image/png", <<"Q","Q">>)

\* C9: when the first text-bearing leaf in depth-first order is a plain-text
\* leaf, the result is that leaf's decoded body.
C9_FirstPlainLeafWins ==
    LET ls == LeavesOf(payload)
        i == FirstIndex(ls, TextBearing)
    IN  (extracted.done /\ i > 0 /\ ls[i].mimeType = "text/plain")
        => extracted.text = ExpectedDecoded(ls[i].data)

\* a nested plain-text leaf after an undecodable one and before other
\* plain-text and HTML leaves
C9_Witness ==
    LET ls == LeavesOf(payload)
        i == FirstIndex(ls, TextBearing)
    IN  /\ extracted.done
        /\ Depth(payload) >= 2
        /\ i >= 2
        /\ ls[i].mimeType = "text/plain"
        /\ \E j \in (i + 1)..Len(ls) : HtmlBearing(ls[j])
        /\ extracted.text = ExpectedDecoded(ls[i].data)
        /\ extracted.text # <<>>

PlainContents(ls) ==
    { ExpectedDecoded(ls[i].data) : i \in { j \in 1..Len(ls) : PlainBearing(ls[j]) } }

\* C10, as stated: a tree with a plain-text leaf of non-empty decoded body
\* yields the content of a plain-text leaf.
C10_PlainPreferred ==
    LET ls == LeavesOf(payload) IN
    (extracted.done /\ FirstIndex(ls, PlainBearing) > 0)
    => extracted.text \in PlainContents(ls)

\* C10, amended: each parts list is left at its first part with a decodable
\* non-empty body, whatever its type.  A tree with a plain-text leaf of
\* non-empty decoded body yields the content of the first such leaf when no
\* HTML leaf with a decodable non-empty body precedes it in depth-first
\* order; when one does, the result is the content of a plain-text leaf or
\* the text outside the markup of an HTML leaf, which may be empty.
C10_HtmlOnlyBeforePlain ==
    LET ls == LeavesOf(payload)
        p == FirstIndex(ls, PlainBearing)
    IN  (extracted.done /\ p > 0)
        => IF \E j \in 1..(p - 1) : HtmlBearing(ls[j])
           THEN \/ extracted.text \in PlainContents(ls)
                \/ \E k \in 1..Len(ls) :
                      /\ HtmlBearing(ls[k])
                      /\ extracted.text = ExpectedStripped(ExpectedDecoded(ls[k].data))
           ELSE extracted.text = ExpectedDecoded(ls[p].data)

\* an HTML leaf in front of a plain-text leaf supplies the result
C10_Witness ==
    LET ls == LeavesOf(payload) IN
    /\ extracted.done
    /\ Len(ls) >= 2
    /\ ls[1] = Leaf("text/html", <<"P","G","I","-","Q","w">>)
    /\ ls[2] = Leaf("text/plain", <<"Q","Q">>)
    /\ extracted.text = <<67>>

\* a text leaf whose body Python cannot decode (safe_decode_base64 gives
\* None): "Q" and "QQ!" among the sample bodies
Undecodable(l) ==
    /\ l.mimeType \in {"text/plain", "text/html"}
    /\ l.data \in {<<"Q">>, <<"Q","Q","!">>}

\* the tree without its undecodable leaves
RECURSIVE Pruned(_)
RECURSIVE PrunedParts(_)
Pruned(t) ==
    IF t.hasParts THEN Container(PrunedParts(t.parts))
    ELSE IF Undecodable(t) THEN Container(<<>>) ELSE t
PrunedParts(f) ==
    IF f = <<>> THEN <<>>
    ELSE IF ~Head(f).hasParts /\ Undecodable(Head(f)) THEN PrunedParts(Tail(f))
    ELSE <<Pruned(Head(f))>> \o PrunedParts(Tail(f))

\* C11: the result for a tree is the result for the same tree without its
\* undecodable leaves; the parts after such a leaf are still visited.
C11_UndecodableLeafIsAbsent ==
    extracted.done => extracted.text = extract_text_from_payload(Pruned(payload))

\* the text comes from a leaf behind two undecodable ones, one of them nested
C11_Witness ==
    LET ls == LeavesOf(payload) IN
    /\ extracted.done
    /\ Depth(payload) >= 2
    /\ Len(ls) >= 3
    /\ Undecodable(ls[1]) /\ ls[1].mimeType = "text/html"
    /\ Undecodable(ls[2]) /\ ls[2].mimeType = "text/plain"
    /\ TextBearing(ls[3])
    /\ extracted.text = ExpectedStripped(ExpectedDecoded(ls[3].data))
    /\ extracted.text # <<>>

(***************************************************************************)
(* Properties of the parser (SpecParse).                                   *)
(***************************************************************************)
\* build_formatted_message has returned the filled template
Alert == parsed.done /\ parsed.fault = "none" /\ parsed.message.kind = "alert"

PickUpLine == <<"P", "i", "c", "k", "-", "U", "p">>
DeliveryLine == <<"D", "e", "l", "i", "v", "e", "r", "y">>
AddressLine == <<"L", "a", "r", "e", "d", "o", ",", " ", "T", "X", " ", "7", "8", "0", "4", "0", " ">>
DirectLine == <<"D", "e", "l", "i", "v", "e", "r", " ", "D", "i", "r", "e", "c", "t">>
SuiteLine == <<"S", "u", "i", "t", "e", " ", "5">>
DateLine == <<"0", "8", "/", "1", "2", "/", "2", "0", "2", "5", " ", "0", "9", ":", "0", "0">>
MilesLine == <<"2", " ", "S", "T", "O", "P", "S", ",", " ", "1", ",", "2", "6", "9", " ", "M", "I", "L", "E", "S">>

\* a line without the blanks around it: only the address line has some
Trimmed(l) == IF l = AddressLine THEN <<"L", "a", "r", "e", "d", "o", ",", " ", "T", "X", " ", "7", "8", "0", "4", "0">> ELSE l

\* the lines with a numeric date, a time of day, "ASAP" or "Direct"
DateShaped(l) == l \in {DirectLine, DateLine}

\* the index of the first line l of the body, 0 if there is none
FirstLine(l) ==
    IF \E i \in 1..Len(email.lines) : email.lines[i] = l
    THEN CHOOSE i \in 1..Len(email.lines) :
            email.lines[i] = l /\ \A j \in 1..(i - 1) : email.lines[j] # l
    ELSE 0

IsNonEmpty(l) == l # <<>>
\* the non-empty lines after line i, without the blanks around them
RECURSIVE TrimAll(_)
TrimAll(ls) == IF ls = <<>> THEN <<>> ELSE <<Trimmed(Head(ls))>> \o TrimAll(Tail(ls))
NonEmptyAfter(i) ==
    TrimAll(SelectSeq(SubSeq(email.lines, i + 1, Len(email.lines)), IsNonEmpty))

\* the record of a text in which no field is recognised
AllDefault ==
    [f \in Fields |->
       CASE f = "pickup_address" -> <<"U", "n", "k", "n", "o", "w", "n", " ", "P", "i", "c", "k", "u", "p">>
         [] f = "pickup_date" -> <<"A", "S", "A", "P">>
         [] f = "delivery_address" -> <<"U", "n", "k", "n", "o", "w", "n", " ", "D", "e", "l", "i", "v", "e", "r", "y">>
         [] OTHER -> <<"N", "/", "A">>]

\* C12, as stated: the empty text is parsed to the all-default record.
C12_EmptyTextAllDefault ==
    (parsed.done /\ Body(email.lines) = <<>>) =>
       (parsed.message.kind = "alert" /\ parsed.message.record = AllDefault)

\* C12, amended: the empty text is answered with the "empty body" error text
\* and no record; the all-default record is the result for a non-empty text
\* in which no field is recognised.
C12_EmptyTextIsAnError ==
    /\ (parsed.done /\ Body(email.lines) = <<>>) =>
          parsed.message = [kind |-> "empty_error"]
    /\ ( /\ parsed.done
         /\ parsed.fault = "none"
         /\ Body(email.lines) # <<>>
         /\ \A i \in 1..Len(email.lines) :
               email.lines[i] \in {<<>>, AddressLine, DirectLine, SuiteLine, DateLine} )
       => ( /\ parsed.message.kind = "alert"
            /\ parsed.message.record = AllDefault
            /\ parsed.message.rendered = AllDefault )

\* the empty text has been parsed
C12_Witness ==
    /\ parsed.done
    /\ email.lines = <<>>
    /\ parsed.message.kind = "empty_error"

Classified(after) ==
    IF DateShaped(after[2]) THEN <<after[1], after[2]>>
    ELSE <<after[1] \o <<" ">> \o after[2], after[3]>>

\* C14, as stated: in the pickup and in the delivery block the second line
\* is the time-window only if it looks like a date; otherwise it belongs to
\* the address and the third line is the time-window.
C14_BothBlocksClassified ==
    LET pickup == NonEmptyAfter(FirstLine(PickUpLine))
        delivery == NonEmptyAfter(FirstLine(DeliveryLine))
    IN
    /\ (Alert /\ FirstLine(PickUpLine) > 0 /\ Len(pickup) >= 3) =>
          /\ parsed.message.record["pickup_address"] = Classified(pickup)[1]
          /\ parsed.message.record["pickup_date"] = Classified(pickup)[2]
    /\ (Alert /\ FirstLine(DeliveryLine) > 0 /\ Len(delivery) >= 3) =>
          /\ parsed.message.record["delivery_address"] = Classified(delivery)[1]
          /\ parsed.message.record["delivery_date"] = Classified(delivery)[2]

\* C14, amended: only the delivery block classifies its second line; when
\* that line does not look like a date and no third line follows, it is the
\* time-window all the same.  In the pickup block the first line is always
\* the address and the second always the time-window.
C14_OnlyDeliveryClassified ==
    LET pickup == NonEmptyAfter(FirstLine(PickUpLine))
        delivery == NonEmptyAfter(FirstLine(DeliveryLine))
    IN
    /\ (Alert /\ FirstLine(PickUpLine) > 0 /\ Len(pickup) >= 2) =>
          /\ parsed.message.record["pickup_address"] = pickup[1]
          /\ parsed.message.record["pickup_date"] = pickup[2]
    /\ (Alert /\ FirstLine(DeliveryLine) > 0 /\ Len(delivery) >= 3) =>
          /\ parsed.message.record["delivery_address"] = Classified(delivery)[1]
          /\ parsed.message.record["delivery_date"] = Classified(delivery)[2]
    /\ (Alert /\ FirstLine(DeliveryLine) > 0 /\ Len(delivery) = 2) =>
          /\ parsed.message.record["delivery_address"] = delivery[1]
          /\ parsed.message.record["delivery_date"] = delivery[2]

\* a delivery block with a second address line, then the date
C14_Witness ==
    /\ Alert
    /\ email.lines = <<DeliveryLine, AddressLine, SuiteLine, DateLine>>
    /\ parsed.message.record["delivery_address"] = <<"L", "a", "r", "e", "d", "o", ",", " ", "T", "X", " ", "7", "8", "0", "4", "0", " ", "S", "u", "i", "t", "e", " ", "5">>
    /\ parsed.message.record["delivery_date"] = DateLine

\* C15: a text with "<N> STOPS, <M> MILES" has the distance <M>, separators
\* included; a text without has the distance "N/A".
C15_DistanceFromStopsMiles ==
    Alert =>
       parsed.message.record["estimated_miles"] =
          IF FirstLine(MilesLine) > 0 THEN <<"1", ",", "2", "6", "9">> ELSE <<"N", "/", "A">>

\* "2 STOPS, 1,269 MILES" between other lines
C15_Witness ==
    /\ Alert
    /\ Len(email.lines) >= 3
    /\ email.lines[2] = MilesLine
    /\ parsed.message.record["estimated_miles"] = <<"1", ",", "2", "6", "9">>
    /\ parsed.message.rendered["estimated_miles"] = <<"1", ",", "2", "6", "9">>

\* str.lower()
ToLower(text) ==
    [k \in 1..Len(text) |->
       IF \E j \in 1..Len(UpperCase) : UpperCase[j] = text[k]
       THEN LowerCase[CHOOSE j \in 1..Len(UpperCase) : UpperCase[j] = text[k]]
       ELSE text[k]]

\* C16: the same text in lower case has the same fields, with the same
\* values but for their letter case.
C16_CaseInsensitive ==
    Alert =>
       LET lower == build_formatted_message(ToLower(Body(email.lines)), "none") IN
       /\ lower.kind = "alert"
       /\ \A f \in Fields :
             /\ ToLower(lower.record[f]) = ToLower(parsed.message.record[f])
             /\ (lower.record[f] = AllDefault[f])
                   = (parsed.message.record[f] = AllDefault[f])

(***************************************************************************)
(* Properties of the parser when one of its operations raises, and of the  *)
(* rendering of long values (SpecRender).                                  *)
(***************************************************************************)
NotesLine == <<"N", "o", "t", "e", "s", ":", " ">> \o Repeat("n", max_len + 1)
StackableLine == <<"S", "t", "a", "c", "k", "a", "b", "l", "e", ":", " ">> \o Repeat("s", max_len + 1)
PiecesLine == <<"P", "i", "e", "c", "e", "s", ":", " ">> \o Repeat("p", max_len)
BrokerLine == <<"B", "r", "o", "k", "e", "r", " ", "N", "a", "m", "e", ":", " ", "A", "n", "n">>

\* the fields that depend on the operation that raised
Failed(fault) ==
    CASE fault = "pickup" -> {"pickup_address", "pickup_date"}
      [] fault = "delivery" -> {"delivery_address", "delivery_date"}
      [] fault = "stops_miles" -> {"estimated_miles"}
      [] fault \in FindFields -> {fault}
      [] OTHER -> {}

\* C17, as stated: when the extraction of a field fails, the result is the
\* error text and not a record with values in it.
C17_AllOrNothing ==
    (parsed.done /\ parsed.fault # "none") => parsed.message.kind # "alert"

\* C17, amended: parsing always returns a result.  A failure inside
\* extract_pickup_info, extract_delivery_info or find is absorbed there: the
\* result is the alert in which the fields of the failed operation show their
\* defaults and every other field has the value it has without the failure.
\* Only a failure elsewhere in build_formatted_message gives the error text.
C17_FailuresAbsorbedPerField ==
    (parsed.done /\ Body(email.lines) # <<>>) =>
       LET clean == build_formatted_message(Body(email.lines), "none") IN
       /\ parsed.message.kind \in {"alert", "processing_error"}
       /\ clean.kind = "alert"
       /\ parsed.fault = "outer" => parsed.message = [kind |-> "processing_error"]
       /\ parsed.fault # "outer" =>
             /\ parsed.message.kind = "alert"
             /\ \A f \in Fields :
                   parsed.message.record[f] =
                      IF f \in Failed(parsed.fault) THEN AllDefault[f]
                      ELSE clean.record[f]

\* the search for the notes raised: the notes show "N/A" next to the broker
\* name taken from the text
C17_Witness ==
    /\ parsed.done
    /\ parsed.fault = "notes"
    /\ email.lines = <<BrokerLine, NotesLine>>
    /\ parsed.message.kind = "alert"
    /\ parsed.message.record["notes"] = <<"N", "/", "A">>
    /\ parsed.message.record["broker_name"] = <<"A", "n", "n">>

\* C18: every string field of the alert is rendered with at most 200
\* characters followed by "..." when its value is longer, and unchanged
\* otherwise; the estimated miles are the one numeric field.
C18_EveryStringFieldLimited ==
    Alert =>
       \A f \in Fields \ {"estimated_miles"} :
          parsed.message.rendered[f] =
             IF Len(parsed.message.record[f]) > 200
             THEN SubSeq(parsed.message.record[f], 1, 200) \o <<".", ".", ".">>
             ELSE parsed.message.record[f]

\* the fields that are cut: notes of 201 characters are rendered with 200
\* and "...", pieces of 200 characters in full
C18_NotesLimited ==
    /\ Alert
    /\ email.lines = <<NotesLine, PiecesLine>>
    /\ Len(parsed.message.record["notes"]) = 201
    /\ parsed.message.rendered["notes"] = Repeat("n", 200) \o <<".", ".", ".">>
    /\ parsed.message.rendered["pieces"] = Repeat("p", 200)

(***************************************************************************)
(* Properties of the text sent and of its recipient (Spec).                *)
(***************************************************************************)
\* the running or last call is a send that has posted to Telegram at least
\* once
Posted == H0.call = "send" /\ H0.calls >= 1

\* C19: the text of every post is the message handed to the sender when that
\* has 4000 characters or fewer, and its first 4000 characters followed by
\* the truncation marker when it has more; each post carries the whole text.
C19_TransmittedText ==
    Posted =>
       /\ TextLen(H0.handed) <= 4000 => H0.sent = H0.handed
       /\ TextLen(H0.handed) > 4000 =>
             H0.sent = <<[src |-> "rendered", len |-> 4000],
                         [src |-> "marker", len |-> 17]>>

\* a message of 4500 characters posted for the third time, as 4000
\* characters and the marker
C19_Witness ==
    /\ Posted
    /\ H0.calls = 3
    /\ H0.handed = <<[src |-> "rendered", len |-> 4500]>>
    /\ H0.sent = <<[src |-> "rendered", len |-> 4000], [src |-> "marker", len |-> 17]>>
    /\ TextLen(H0.sent) = 4017

\* a message of exactly 4000 characters posted as it is
C19_WitnessBoundary ==
    /\ Posted
    /\ H0.handed = <<[src |-> "rendered", len |-> 4000]>>
    /\ H0.sent = H0.handed

C21_EmptyTextNotProcessed ==
    [][ /\ (T0.pc = "after_fetch" /\ T0.body = 0 /\ thread' # thread) =>
              /\ T0'.pc = "loop"
              /\ T0'.message = <<>>
              /\ T0'.processed_count = T0.processed_count
              /\ H0'.call # "send"
        /\ (T0'.pc = "send" /\ T0.pc # "send") =>
              (T0.pc = "after_fetch" /\ T0.body > 0) ]_vars

\* the extractor found no text in the first candidate and the handler is
\* back at the head of the loop with nothing built and nothing sent
C21_Witness ==
    /\ T0.pc = "loop"
    /\ T0.body = 0
    /\ T0.pending >= 1
    /\ T0.message = <<>>
    /\ T0.processed_count = 0
    /\ H0.call = "fetch"
    /\ H0.result = "empty"
    /\ H0.lastOutcome.kind = "ok"

\* the number of steps the handler can still take, at most: the position a
\* re-initialisation returns to counts for its steps, and the candidates
\* still to fetch for those of their fetch and send calls
Slot(pc, attempt, pending) ==
    CASE pc = "recheck" -> 192
      [] pc = "health" -> 188
      [] pc = "parse" -> 180
      [] pc = "list" -> 172 - 4 * attempt
      [] pc = "loop" -> 40 * pending
      [] pc = "fetch" -> 40 * pending + 32 - 4 * attempt
      [] pc = "fetch_ret" -> 40 * pending + 20
      [] pc = "after_fetch" -> 40 * pending + 16
      [] pc = "send" -> 40 * pending + 12 - 4 * attempt
      [] OTHER -> 0
StepsLeft(T) ==
    CASE T.pc = "reinit" -> Slot(T.ret, T.attempt, T.pending) + 3
      [] T.pc = "build" -> Slot(T.ret, T.attempt, T.pending) + 2
      [] T.pc = "profile" -> Slot(T.ret, T.attempt, T.pending) + 1
      [] OTHER -> Slot(T.pc, T.attempt, T.pending)

\* C22: whatever the notification and the outcomes of re-initialisation,
\* list, fetch and send, the handler ends with the response 200, 400 or 500:
\* every step of a running handler brings it closer to its response, a
\* running handler always has a next step, and the step that ends it answers
\* with one of the three codes.
C22_HandlerAlwaysResponds ==
    /\ [] ( /\ H0.response \in {0, 200, 400, 500}
            /\ T0.pc # "idle" => (StepsLeft(T0) \in 0..195 /\ ENABLED Step(MainThread)) )
    /\ [][ (T0.pc # "idle" /\ thread' # thread) =>
              \/ T0'.pc = "idle" /\ H0'.response \in {200, 400, 500}
              \/ T0'.pc # "idle" /\ StepsLeft(T0') < StepsLeft(T0) ]_vars

\* the re-initialisation of the service failed, the list call raised on the
\* missing service, and the handler has answered 200
C22_Witness ==
    /\ T0.pc = "idle"
    /\ H0.response = 200
    /\ service = "None"

\* C23: a notification has at most one message formatted and handed to the
\* sender.  At most 3 candidates are listed and they are fetched one after
\* the other; a candidate whose body has 100 characters or fewer is skipped
\* and the next one is fetched; the first candidate with a longer body is
\* sent and ends the loop, whether the send returned True or False.
C23_OneMessagePerNotification ==
    /\ [] ( /\ T0.pending \in 0..3
            /\ T0.processed_count \in 0..1
            /\ T0.pc \in {"fetch", "fetch_ret", "after_fetch", "send"} =>
                  T0.processed_count = 0 )
    /\ [][ thread' # thread =>
           /\ (T0.pc = "after_fetch" /\ T0.body <= 100) =>
                 (T0'.pc = "loop" /\ T0'.processed_count = 0
                    /\ T0'.pending = T0.pending)
           /\ (T0.pc = "after_fetch" /\ T0.body > 100) =>
                 (T0'.pc = "send" /\ T0'.message # <<>>)
           /\ (T0.pc = "loop" /\ T0.processed_count = 0 /\ T0.pending > 0) =>
                 (T0'.pc = "fetch" /\ T0'.pending = T0.pending - 1)
           /\ (T0.pc = "send" /\ T0'.pc # "send") =>
                 (T0'.pc = "loop" /\ T0'.processed_count = 1
                    /\ H0'.result \in {"True", "False"})
           /\ (T0.pc = "loop" /\ T0.processed_count = 1) =>
                 (T0'.pc = "idle" /\ H0'.response = 200) ]_vars

\* of three candidates the first was skipped, the second was sent without
\* success, and the third is left alone
C23_Witness ==
    /\ T0.pc = "loop"
    /\ T0.pending = 1
    /\ T0.processed_count = 1
    /\ H0.call = "send"
    /\ H0.result = "False"
    /\ H0.calls = 3

(***************************************************************************)
(* Properties of one send call (Spec).                                     *)
(***************************************************************************)
\* the outcomes of a post after which send_telegram_message may post again
RetryableSendOutcome(o) ==
    \/ o.kind \in {"conn", "timeout"}
    \/ o.kind = "status" /\ o.status \in {429, 500, 502, 503, 504}

\* C24: send_telegram_message returns True exactly when its last attempt,
\* one of at most 3, was answered 200; every attempt before another one
\* failed with a connection error, a timeout or a status 429, 500, 502, 503
\* or 504; and the attempt answered 200 is the last one of the call.
C24_TrueIffDelivered ==
    /\ [] ( /\ (H0.call = "send" /\ H0.result # "none") =>
                  /\ H0.result \in {"True", "False"}
                  /\ T0.pc # "send"
                  /\ (H0.result = "True") <=>
                        (H0.calls \in 1..3 /\ H0.lastOutcome.kind = "status"
                           /\ H0.lastOutcome.status = 200)
            /\ (H0.call = "send" /\ H0.calls >= 1
                   /\ H0.lastOutcome.kind = "status" /\ H0.lastOutcome.status = 200) =>
                  (H0.result = "True" /\ T0.pc # "send")
            /\ (H0.call = "send" /\ H0.calls >= 2) =>
                  RetryableSendOutcome(H0.prevOutcome) )
    /\ [][ (H0.call = "send" /\ H0'.call = "send" /\ H0'.calls # H0.calls) =>
              /\ H0'.calls = H0.calls + 1
              /\ H0.result = "none"
              /\ H0.calls >= 1 => RetryableSendOutcome(H0.lastOutcome) ]_vars

\* delivered at the third attempt, after a failed first one and a 503
C24_Witness ==
    /\ H0.call = "send"
    /\ H0.calls = 3
    /\ H0.prevOutcome.kind = "status" /\ H0.prevOutcome.status = 503
    /\ H0.lastOutcome.kind = "status" /\ H0.lastOutcome.status = 200
    /\ H0.result = "True"

(***************************************************************************)
(* The service handle at the remote calls (Spec).                          *)
(***************************************************************************)
\* C25: where a handler issues the list call through the global service
\* handle, the handle is not None.
C25_ServiceSetAtRemoteCall ==
    \A h \in Threads : thread[h].pc = "list" => service # "None"

(***************************************************************************)
(* The text of the retries of one send call (Spec).                        *)
(***************************************************************************)
\* the number of truncation markers in a text
RECURSIVE Markers(_)
Markers(t) ==
    IF t = <<>> THEN 0
    ELSE (IF Head(t).src = "marker" THEN 1 ELSE 0) + Markers(Tail(t))

\* C26: every post of one send call carries the same text: the truncation
\* test, run again on each attempt, leaves the text of the attempt before
\* as it is, so the text has at most one marker and keeps its length.
C26_SameTextOnEveryAttempt ==
    /\ [] ( Posted =>
              /\ Markers(H0.sent) <= 1
              /\ Markers(H0.sent) = 1 <=> TextLen(H0.handed) > 4000
              /\ TextLen(H0.sent) <= 4000 + 17
              /\ T0.pc = "send" => T0.message = H0.sent )
    /\ [][ (Posted /\ H0'.call = "send" /\ H0'.calls = H0.calls + 1) =>
              /\ H0'.sent = H0.sent
              /\ TextLen(H0'.sent) = TextLen(H0.sent)
              /\ H0'.handed = H0.handed ]_vars

\* a message of 4500 characters before its third attempt: the second
\* attempt has run the truncation on the text cut by the first
C26_Witness ==
    /\ T0.pc = "send"
    /\ T0.attempt = 2
    /\ H0.call = "send"
    /\ H0.calls = 2
    /\ TextLen(H0.handed) = 4500
    /\ TextLen(H0.sent) = 4017
    /\ Markers(H0.sent) = 1
    /\ T0.message = H0.sent

====
